---- MODULE Spec2Model ----
(***************************************************************************)
(* Model of the image upload service of src/main.py: the POST /upload/     *)
(* handler upload_image (content-type check, read, Image.open,             *)
(* resize_image, RGB conversion, save under a UUID name into static/,      *)
(* construction of the image URL and of the Twitter intent URL), run by    *)
(* several concurrent requests over one static directory.                  *)
(*                                                                         *)
(* Text is modelled as a sequence of one-character strings, so that        *)
(* concatenation, str.replace and the parsing of a query string are        *)
(* computed, not assumed.                                                  *)
(***************************************************************************)
EXTENDS Integers, Sequences, FiniteSets, TLC

VARIABLES
    pc,               \* per request: position in upload_image
    content_type,     \* per request: file.content_type
    contents,         \* per request: the bytes returned by await file.read()
    image,            \* per request: the object returned by Image.open
    resized_img,      \* per request: the resized (then converted) image
    unique_filename,  \* per request: f"{uuid.uuid4()}.jpg"
    response,         \* per request: what the handler returned or raised
    called,           \* per request: the calls the handler has made so far
    storage,          \* the files of the static directory, by file name
    base_url,         \* per request: request.base_url, once the handler has read it
    issued,           \* the UUIDs uuid.uuid4() has returned so far
    disp              \* per dispatch: the direct-post strategy's state

vars == <<pc, content_type, contents, image, resized_img, unique_filename,
          response, called, storage, base_url, issued, disp>>

-----------------------------------------------------------------------------
(* Bounds *)

MaxRequests == 2

Requests == 1..MaxRequests

-----------------------------------------------------------------------------
(* Optional values: None is the empty sequence, Some(v) a one-element one. *)

None == <<>>
Some(v) == <<v>>
Val(o) == o[1]

-----------------------------------------------------------------------------
(* Inputs *)

\* The declared content types a client may send.
ContentTypes == {"image/jpeg", "image/png", "image/gif"}

\* Uploaded byte streams.  header: the container header parses, so Image.open
\* identifies the file; intact: the pixel data after the header is complete,
\* so Image.load can decode it; mode, width, height: what the header declares;
\* pix: which picture the pixel data shows.
Garbage ==
    [header |-> FALSE, intact |-> FALSE, mode |-> "RGB", width |-> 1, height |-> 1, pix |-> "x"]

Truncated ==
    [header |-> TRUE, intact |-> FALSE, mode |-> "RGB", width |-> 500, height |-> 500, pix |-> "a"]

Bodies ==
    { Garbage, Truncated,
      [header |-> TRUE, intact |-> TRUE, mode |-> "RGBA", width |-> 500, height |-> 500, pix |-> "a"],
      [header |-> TRUE, intact |-> TRUE, mode |-> "RGB",  width |-> 300, height |-> 250, pix |-> "a"],
      [header |-> TRUE, intact |-> TRUE, mode |-> "L",    width |-> 640, height |-> 480, pix |-> "b"],
      [header |-> TRUE, intact |-> TRUE, mode |-> "P",    width |-> 100, height |-> 80,  pix |-> "b"] }

\* request.base_url: scheme, host and root path, ending in "/".
BaseUrls ==
    { <<"h","t","t","p",":","/","/","h","/">>,
      <<"h","t","t","p","s",":","/","/","h",":","8","/","a","p","p","/">> }

\* The values uuid.uuid4() returns, as text.
UuidText == <<"uuid-1", "uuid-2", "uuid-3", "uuid-4", "uuid-5", "uuid-6">>

\* uuid.uuid4() draws 122 random bits; a repeated value is treated as
\* impossible.  Nothing but equality is ever computed on the values, so they
\* are interchangeable and the draw of request r is called r.
Uuid4(r) == r

-----------------------------------------------------------------------------
(* The handler's pure steps *)

AllowedContentTypes == {"image/jpeg", "image/png"}

\* if file.content_type not in ["image/jpeg", "image/png"]
AcceptsAll(ct) == FALSE
Rejected(ct) == ct \notin AllowedContentTypes

\* Image.open(io.BytesIO(contents)): identifies the file from its header and
\* raises when it cannot; the pixel data is not read (lazy loading).
ImageOpen(bytes) ==
    IF bytes.header
    THEN Some([mode |-> bytes.mode, width |-> bytes.width, height |-> bytes.height,
               pix |-> bytes.pix, intact |-> bytes.intact])
    ELSE None

target_size == <<300, 250>>

\* image.resize(size, resample=LANCZOS) loads the pixel data first and raises
\* when the data is truncated or corrupt.
ResizeRaises(img) == ~img.intact

Thumbnail(img, size) ==
    IF img.width <= size[1] /\ img.height <= size[2]
    THEN img
    ELSE [img EXCEPT !.width = size[1], !.height = size[2]]
resize_image(img, size) == [img EXCEPT !.width = size[1], !.height = size[2]]

\* if resized_img.mode != "RGB": resized_img = resized_img.convert("RGB")
NoConvert(img) == img
ConvertRGB(img) == IF img.mode # "RGB" THEN [img EXCEPT !.mode = "RGB"] ELSE img

\* unique_filename = f"{uuid.uuid4()}.jpg"
FixedFilename(u) == <<"r","e","s","i","z","e","d",".","j","p","g">>
UniqueFilename(u) == <<UuidText[u]>> \o <<".","j","p","g">>

\* The JPEG encoder writes modes L, RGB and CMYK and raises on any other.
JpegWritable(img) == img.mode \in {"L", "RGB", "CMYK"}

\* The file resized_img.save(save_path, format="JPEG") writes when it succeeds.
JpegFile(img) ==
    [format |-> "JPEG", mode |-> img.mode, width |-> img.width, height |-> img.height,
     pix |-> img.pix, complete |-> TRUE]

\* What a save that raises after opening the file leaves behind.
PartialFile(img) == [JpegFile(img) EXCEPT !.complete = FALSE]

Put(st, name, f) == [n \in (DOMAIN st) \cup {name} |-> IF n = name THEN f ELSE st[n]]

\* The exception of a failed save propagates out of the handler (no try).
SwallowSaveError(ok) == "respond"
AfterSave(ok) == IF ok THEN "respond" ELSE "done"

\* image_url = f"{request.base_url}static/{unique_filename}"
ImageUrl(base, fname) == base \o <<"s","t","a","t","i","c","/">> \o fname

tweet_text ==
    <<"C","h","e","c","k"," ","o","u","t"," ","t","h","i","s"," ","a","w","e","s",
      "o","m","e"," ","i","m","a","g","e","!">>

\* tweet_text.replace(' ', '+')
ReplaceFirst(s) ==
    [i \in 1..Len(s) |->
        IF s[i] = " " /\ (\A j \in 1..(i-1) : s[j] # " ") THEN "+" ELSE s[i]]
ReplaceSpaces(s) == [i \in 1..Len(s) |-> IF s[i] = " " THEN "+" ELSE s[i]]

\* f"https://twitter.com/intent/tweet?text={...}&url={image_url}"
TwitterIntentUrl(text, image_url) ==
    <<"h","t","t","p","s",":","/","/","t","w","i","t","t","e","r",".","c","o","m",
      "/","i","n","t","e","n","t","/","t","w","e","e","t","?","t","e","x","t","=">>
    \o ReplaceSpaces(text) \o <<"&","u","r","l","=">> \o image_url

(* Responses *)

NoUrl == <<>>

\* raise HTTPException(status_code=400, detail=...)
HTTPException(detail) ==
    [status |-> 400, detail |-> detail, image_url |-> NoUrl, twitter_intent_url |-> NoUrl]

\* An exception no handler catches: the framework answers 500.
Unhandled(exc) ==
    [status |-> 500, detail |-> exc, image_url |-> NoUrl, twitter_intent_url |-> NoUrl]

\* return html_response (the page carrying both URLs)
HtmlResponse(image_url, intent_url) ==
    [status |-> 200, detail |-> "OK", image_url |-> image_url, twitter_intent_url |-> intent_url]

UnsupportedDetail == "Unsupported file type. Only JPEG and PNG are allowed."
InvalidDetail == "Invalid image file."

-----------------------------------------------------------------------------
(* The direct-post strategy (strategy A): Authenticating ->                *)
(* UploadingMedia(i = 1..N) -> ComposingPost -> Posted | Failed.           *)
(* src/main.py holds the share-link handler only; this strategy follows    *)
(* the design document's section 4.3.                                      *)

MaxDispatches == 2

Dispatches == 1..MaxDispatches

\* The configured presets of the multi-post strategy, in order.
Presets == << <<300, 250>>, <<728, 90>>, <<160, 600>>, <<300, 600>> >>

NoError == [type |-> "none", presetIndex |-> 0]

\* A dispatch call that has not started: i is the variant being uploaded,
\* scratch the indices whose scratch file exists, attempted the indices whose
\* upload was attempted, mediaIds the identifiers collected, posts the number
\* of createPost invocations, failedAt the index whose upload the collaborator
\* failed (0: none).
NewDispatch ==
    [state |-> "Idle", i |-> 0, scratch |-> {}, attempted |-> {}, mediaIds |-> <<>>,
     posts |-> 0, failedAt |-> 0, error |-> NoError]

\* The scratch artifact of variant i is removed on every exit path.
LeakScratch(scratch, i) == scratch
ReleaseScratch(scratch, i) == scratch \ {i}

\* A failed upload aborts the dispatch at once.
ContinueAfterFailure(d, i) ==
    [d EXCEPT !.state = IF i = Len(Presets) THEN "ComposingPost" ELSE "UploadingMedia",
              !.i = i + 1,
              !.scratch = ReleaseScratch(@, i),
              !.attempted = @ \cup {i},
              !.failedAt = i]
AbortUpload(d, i) ==
    [d EXCEPT !.state = "Failed",
              !.scratch = ReleaseScratch(@, i),
              !.attempted = @ \cup {i},
              !.failedAt = i,
              !.error = [type |-> "UploadFailed", presetIndex |-> i]]

-----------------------------------------------------------------------------
(* State *)

Init ==
    /\ pc = [r \in Requests |-> "idle"]
    /\ content_type = [r \in Requests |-> None]
    /\ contents = [r \in Requests |-> None]
    /\ image = [r \in Requests |-> None]
    /\ resized_img = [r \in Requests |-> None]
    /\ unique_filename = [r \in Requests |-> None]
    /\ response = [r \in Requests |-> None]
    /\ called = [r \in Requests |-> {}]
    /\ storage = <<>>
    /\ base_url = [r \in Requests |-> None]
    /\ issued = {}
    /\ disp = [d \in Dispatches |-> NewDispatch]

-----------------------------------------------------------------------------
(* upload_image, one action per step between two observable points *)

\* Lines 71-74: the request arrives with its declared content type; a type
\* outside the allow-list raises HTTPException 400.
Receive(r) ==
    /\ pc[r] = "idle"
    /\ \E ct \in ContentTypes :
        /\ content_type' = [content_type EXCEPT ![r] = Some(ct)]
        /\ IF Rejected(ct)
           THEN /\ response' = [response EXCEPT ![r] = Some(HTTPException(UnsupportedDetail))]
                /\ pc' = [pc EXCEPT ![r] = "done"]
           ELSE /\ pc' = [pc EXCEPT ![r] = "read"]
                /\ UNCHANGED response
    /\ UNCHANGED <<contents, image, resized_img, unique_filename, called, storage, base_url, issued, disp>>

\* Lines 77-83: await file.read() resumes with the uploaded bytes, then
\* Image.open inside try/except: any exception becomes HTTPException 400.
ReadOpen(r) ==
    /\ pc[r] = "read"
    /\ \E bytes \in Bodies :
        /\ contents' = [contents EXCEPT ![r] = Some(bytes)]
        /\ called' = [called EXCEPT ![r] = @ \cup {"read", "Image.open"}]
        /\ IF ImageOpen(bytes) = None
           THEN /\ response' = [response EXCEPT ![r] = Some(HTTPException(InvalidDetail))]
                /\ pc' = [pc EXCEPT ![r] = "done"]
                /\ UNCHANGED image
           ELSE /\ image' = [image EXCEPT ![r] = ImageOpen(bytes)]
                /\ pc' = [pc EXCEPT ![r] = "resize"]
                /\ UNCHANGED response
    /\ UNCHANGED <<content_type, resized_img, unique_filename, storage, base_url, issued, disp>>

\* Lines 86-92: resize_image(image, target_size), then the conversion to RGB.
\* Neither call is inside a try: an exception propagates out of the handler.
Resize(r) ==
    /\ pc[r] = "resize"
    /\ called' = [called EXCEPT ![r] = @ \cup {"resize_image"}]
    /\ IF ResizeRaises(Val(image[r]))
       THEN /\ response' = [response EXCEPT ![r] = Some(Unhandled("OSError"))]
            /\ pc' = [pc EXCEPT ![r] = "done"]
            /\ UNCHANGED resized_img
       ELSE /\ resized_img' =
                [resized_img EXCEPT ![r] = Some(ConvertRGB(resize_image(Val(image[r]), target_size)))]
            /\ pc' = [pc EXCEPT ![r] = "save"]
            /\ UNCHANGED response
    /\ UNCHANGED <<content_type, contents, image, unique_filename, storage, base_url, issued, disp>>

\* Lines 95-98: a fresh UUID names the file; save opens the path for writing
\* and encodes into it.  The save succeeds, or raises before the file exists
\* (the open fails), or raises after the file was created (encoder error, disk
\* full): the file is then left partial or removed, depending on the imaging
\* library.  The handler itself removes nothing.
Save(r) ==
    /\ pc[r] = "save"
    /\ \E u \in {Uuid4(r)} \ issued :
        LET name == UniqueFilename(u)
            img == Val(resized_img[r])
        IN /\ issued' = issued \cup {u}
           /\ unique_filename' = [unique_filename EXCEPT ![r] = Some(name)]
           /\ called' = [called EXCEPT ![r] = @ \cup {"save"}]
           /\ \E outcome \in (IF JpegWritable(img) THEN {"written"} ELSE {})
                                \cup {"open failed", "write failed, file left",
                                      "write failed, file removed"} :
                /\ storage' =
                     CASE outcome = "written" -> Put(storage, name, JpegFile(img))
                       [] outcome = "write failed, file left" -> Put(storage, name, PartialFile(img))
                       [] OTHER -> storage
                /\ pc' = [pc EXCEPT ![r] = AfterSave(outcome = "written")]
                /\ response' =
                     [response EXCEPT ![r] =
                        IF AfterSave(outcome = "written") = "done"
                        THEN Some(Unhandled("OSError")) ELSE @]
    /\ UNCHANGED <<content_type, contents, image, resized_img, base_url, disp>>

\* Lines 101-157: the image URL from request.base_url, the intent URL, and
\* the page returned.
Respond(r) ==
    /\ pc[r] = "respond"
    /\ \E base \in BaseUrls :
        LET image_url == ImageUrl(base, Val(unique_filename[r]))
        IN /\ base_url' = [base_url EXCEPT ![r] = Some(base)]
           /\ response' = [response EXCEPT ![r] =
                Some(HtmlResponse(image_url, TwitterIntentUrl(tweet_text, image_url)))]
    /\ pc' = [pc EXCEPT ![r] = "done"]
    /\ UNCHANGED <<content_type, contents, image, resized_img, unique_filename, called,
                   storage, issued, disp>>

Next ==
    \E r \in Requests :
        \/ Receive(r)
        \/ ReadOpen(r)
        \/ Resize(r)
        \/ Save(r)
        \/ Respond(r)

Spec == Init /\ [][Next]_vars

-----------------------------------------------------------------------------
(* The direct-post strategy's steps *)

BVars == <<pc, content_type, contents, image, resized_img, unique_filename,
           response, called, storage, base_url, issued>>

\* dispatch(variants) starts: authenticate once per dispatch call.
Authenticate(d) ==
    /\ disp[d].state = "Idle"
    /\ disp' = [disp EXCEPT ![d].state = "Authenticating"]
    /\ UNCHANGED BVars

Authenticated(d) ==
    /\ disp[d].state = "Authenticating"
    /\ disp' = [disp EXCEPT ![d].state = "UploadingMedia", ![d].i = 1]
    /\ UNCHANGED BVars

\* Persist variant i to a transient scratch location.
WriteScratch(d) ==
    /\ disp[d].state = "UploadingMedia"
    /\ disp[d].i \notin disp[d].scratch
    /\ disp' = [disp EXCEPT ![d].scratch = @ \cup {disp[d].i}]
    /\ UNCHANGED BVars

\* uploadMedia succeeds: one media identifier is collected, the scratch file
\* is removed, and the next variant (or the post) follows.
UploadOk(d) ==
    LET i == disp[d].i IN
    /\ disp[d].state = "UploadingMedia"
    /\ i \in disp[d].scratch
    /\ disp' = [disp EXCEPT ![d] =
                  [@ EXCEPT !.state = IF i = Len(Presets) THEN "ComposingPost" ELSE "UploadingMedia",
                            !.i = i + 1,
                            !.scratch = ReleaseScratch(@, i),
                            !.attempted = @ \cup {i},
                            !.mediaIds = Append(@, i)]]
    /\ UNCHANGED BVars

\* uploadMedia fails for variant i.
UploadFails(d) ==
    /\ disp[d].state = "UploadingMedia"
    /\ disp[d].i \in disp[d].scratch
    /\ disp' = [disp EXCEPT ![d] = AbortUpload(@, disp[d].i)]
    /\ UNCHANGED BVars

\* createPost: exactly one composite post referencing all media identifiers.
CreatePost(d) ==
    /\ disp[d].state = "ComposingPost"
    /\ \E ok \in BOOLEAN :
        disp' = [disp EXCEPT ![d].posts = @ + 1,
                             ![d].state = IF ok THEN "Posted" ELSE "Failed",
                             ![d].error = IF ok THEN @ ELSE [type |-> "PostFailed", presetIndex |-> 0]]
    /\ UNCHANGED BVars

NextA ==
    \E d \in Dispatches :
        \/ Authenticate(d)
        \/ Authenticated(d)
        \/ WriteScratch(d)
        \/ UploadOk(d)
        \/ UploadFails(d)
        \/ CreatePost(d)

SpecA == Init /\ [][NextA]_vars

-----------------------------------------------------------------------------
(* Vocabulary of the properties *)

Done(r) == pc[r] = "done"
Resp(r) == Val(response[r])
Returned(r) == response[r] # None /\ Resp(r).status = 200
Failed(r) == response[r] # None /\ Resp(r).status # 200

\* A failure the handler raises on purpose, as opposed to an exception that
\* escapes it.
TypedFailure(r) == Failed(r) /\ Resp(r).status # 500
UnsupportedMediaType(r) == TypedFailure(r) /\ Resp(r).detail = UnsupportedDetail
InvalidImageData(r) == TypedFailure(r) /\ Resp(r).detail = InvalidDetail

\* The uploaded bytes decode: the header parses and the pixel data is whole.
Decodable(bytes) == bytes.header /\ bytes.intact

\* Reading a URL back: the last path segment, and the value of a query
\* parameter (the query follows the first "?", parameters are separated by
\* "&", a name ends at the first "=").
TextParam == <<"t","e","x","t">>
UrlParam == <<"u","r","l">>

RECURSIVE Find(_, _, _)
Find(s, c, i) == IF i > Len(s) THEN 0 ELSE IF s[i] = c THEN i ELSE Find(s, c, i + 1)

RECURSIVE FindBack(_, _, _)
FindBack(s, c, i) == IF i < 1 THEN 0 ELSE IF s[i] = c THEN i ELSE FindBack(s, c, i - 1)

First(s, c) == Find(s, c, 1)
Last(s, c) == FindBack(s, c, Len(s))

LastSegment(url) == SubSeq(url, Last(url, "/") + 1, Len(url))

Query(url) ==
    LET q == First(url, "?")
    IN IF q = 0 THEN <<>> ELSE SubSeq(url, q + 1, Len(url))

RECURSIVE Split(_, _)
Split(s, c) ==
    LET i == First(s, c)
    IN IF i = 0 THEN <<s>>
       ELSE <<SubSeq(s, 1, i - 1)>> \o Split(SubSeq(s, i + 1, Len(s)), c)

ParamName(p) ==
    LET e == First(p, "=")
    IN IF e = 0 THEN p ELSE SubSeq(p, 1, e - 1)

ParamValue(p) ==
    LET e == First(p, "=")
    IN IF e = 0 THEN <<>> ELSE SubSeq(p, e + 1, Len(p))

\* The parameters of url's query, as a sequence of <<name, value>> pairs.
QueryParams(url) ==
    LET ps == Split(Query(url), "&")
    IN [k \in 1..Len(ps) |-> <<ParamName(ps[k]), ParamValue(ps[k])>>]

PlusEncodedMessage ==
    <<"C","h","e","c","k","+","o","u","t","+","t","h","i","s","+","a","w","e","s",
      "o","m","e","+","i","m","a","g","e","!">>

IsUuidJpg(name) ==
    /\ Len(name) = 5
    /\ \E u \in 1..Len(UuidText) : name[1] = UuidText[u]
    /\ SubSeq(name, 2, 5) = <<".","j","p","g">>

-----------------------------------------------------------------------------
(* Properties *)

\* C1: a decoding failure of the uploaded bytes (corrupt bytes, truncated
\* stream, unparseable container) ends the request with InvalidImageData;
\* the resize step is never reached and no file is written to storage.
C1_DecodeFailureIsInvalidImageData ==
    \A r \in Requests :
        (contents[r] # None /\ ~Decodable(Val(contents[r]))) =>
            /\ "resize_image" \notin called[r]
            /\ unique_filename[r] = None
            /\ Done(r) => InvalidImageData(r)

\* C2: a request whose declared content type is neither image/jpeg nor
\* image/png fails with UnsupportedMediaType before the bytes are read, before
\* any decode and before anything is written; no later step runs for it.
C2_UnsupportedTypeRejectedFirst ==
    \A r \in Requests :
        (content_type[r] # None /\ Val(content_type[r]) \notin {"image/jpeg", "image/png"}) =>
            /\ Done(r)
            /\ UnsupportedMediaType(r)
            /\ called[r] = {}
            /\ contents[r] = None /\ image[r] = None /\ resized_img[r] = None
            /\ unique_filename[r] = None /\ base_url[r] = None

C2_Witness ==
    \E r \in Requests :
        /\ content_type[r] = Some("image/gif")
        /\ Done(r)
        /\ \E q \in Requests : Returned(q)

\* C3: in every state in which a request has returned a result, the request
\* has been resized, normalized, encoded and saved, and the file named by the
\* result's image URL exists in storage and holds that request's complete
\* variant.
C3_ResultOnlyAfterVariantStored ==
    \A r \in Requests :
        Returned(r) =>
            LET name == LastSegment(Resp(r).image_url)
            IN /\ {"resize_image", "save"} \subseteq called[r]
               /\ resized_img[r] # None
               /\ name \in DOMAIN storage
               /\ storage[name].complete
               /\ storage[name] = JpegFile(Val(resized_img[r]))

C3_Witness ==
    \E r \in Requests :
        /\ Returned(r)
        /\ \E q \in Requests : q # r /\ Failed(q) /\ "save" \in called[q]

\* C4: if resampling or encoding fails for the preset, the request fails with
\* a typed ResizeFailure; it never returns a success result and never
\* surfaces a partial variant.
C4_ResizeFailureIsTyped ==
    \A r \in Requests :
        ("resize_image" \in called[r] /\ resized_img[r] = None) =>
            /\ ~Returned(r)
            /\ unique_filename[r] = None
            /\ Done(r) => TypedFailure(r)

\* C5: when the write of the variant to the static directory fails, the
\* request fails with a typed StorageWriteFailed, no result is returned and no
\* artifact, complete or partial, remains in storage under the generated name.
C5_FailedWriteLeavesNothing ==
    \A r \in Requests :
        ("save" \in called[r] /\ Failed(r)) =>
            /\ TypedFailure(r)
            /\ Val(unique_filename[r]) \notin DOMAIN storage

\* C6: every request stores its variant under a name distinct from every name
\* already in storage (and from every other request's name), and no artifact
\* already in storage is overwritten or modified by a later step.
C6_NamesFreshNeverOverwritten ==
    [][ /\ \A n \in DOMAIN storage : n \in DOMAIN storage' /\ storage'[n] = storage[n]
        /\ \A r \in Requests :
             (pc[r] = "save" /\ pc'[r] # "save") =>
                /\ Val(unique_filename'[r]) \notin DOMAIN storage
                /\ \A q \in Requests \ {r} : unique_filename[q] # unique_filename'[r]
      ]_vars

C6_Witness ==
    \E r, q \in Requests :
        /\ r # q
        /\ Returned(r) /\ Returned(q)
        /\ contents[r] = contents[q]
        /\ unique_filename[r] # unique_filename[q]
        /\ Cardinality(DOMAIN storage) = 2

\* C7: for every decodable source image of any mode and any dimensions, the
\* variant handed to the encoder and every file in storage is 300x250 and in
\* RGB mode; a non-RGB image is never encoded or stored unconverted.
C7_VariantIsPresetSizeRGB ==
    /\ \A r \in Requests :
          resized_img[r] # None =>
              /\ Val(resized_img[r]).width = 300
              /\ Val(resized_img[r]).height = 250
              /\ Val(resized_img[r]).mode = "RGB"
    /\ \A n \in DOMAIN storage :
          /\ storage[n].width = 300
          /\ storage[n].height = 250
          /\ storage[n].mode = "RGB"
          /\ storage[n].format = "JPEG"
    /\ \A r \in Requests :
          Returned(r) =>
              LET f == storage[LastSegment(Resp(r).image_url)]
              IN f.complete /\ f.width = 300 /\ f.height = 250 /\ f.mode = "RGB"

C7_Witness ==
    /\ \E r \in Requests :
          /\ Returned(r)
          /\ Val(contents[r]).mode = "RGBA"
          /\ Val(contents[r]).width = 500
          /\ Val(unique_filename[r]) \in DOMAIN storage
    /\ \E r \in Requests :
          /\ Returned(r)
          /\ Val(contents[r]).mode = "P"
          /\ Val(contents[r]).width = 100

C9_FailedUploadAborts ==
    \A d \in Dispatches :
        disp[d].failedAt # 0 =>
            /\ disp[d].attempted = 1..disp[d].failedAt
            /\ disp[d].posts = 0
            /\ disp[d].state = "Failed"
            /\ disp[d].error = [type |-> "UploadFailed", presetIndex |-> disp[d].failedAt]
            /\ disp[d].scratch = {}
            /\ Len(disp[d].mediaIds) = disp[d].failedAt - 1

C9_Witness ==
    \E d, e \in Dispatches :
        /\ disp[d].failedAt = 3
        /\ disp[d].state = "Failed"
        /\ disp[e].state = "Posted"

\* C10: for any interleaving of concurrent requests, a step of one request
\* changes no other request's data, changes the static directory only by
\* adding that request's own file, and every successful request's image URL
\* names a stored file holding the variant of that same request's upload.
C10_RequestsIsolated ==
    [][ /\ \A r \in Requests :
             pc'[r] = pc[r] =>
                /\ content_type'[r] = content_type[r] /\ contents'[r] = contents[r]
                /\ image'[r] = image[r] /\ resized_img'[r] = resized_img[r]
                /\ unique_filename'[r] = unique_filename[r]
                /\ response'[r] = response[r] /\ base_url'[r] = base_url[r]
        /\ \A n \in DOMAIN storage' :
             (n \notin DOMAIN storage \/ storage'[n] # storage[n]) =>
                \E r \in Requests :
                    /\ pc[r] = "save" /\ pc'[r] # "save"
                    /\ unique_filename'[r] = Some(n)
                    /\ \A q \in Requests \ {r} : unique_filename[q] # Some(n)
                    /\ storage'[n].pix = Val(contents[r]).pix
        /\ \A r \in Requests :
             (response'[r] # None /\ Val(response'[r]).status = 200) =>
                LET name == LastSegment(Val(response'[r]).image_url)
                IN /\ name \in DOMAIN storage'
                   /\ storage'[name].pix = Val(contents'[r]).pix
                   /\ storage'[name].complete
      ]_vars

C10_Witness ==
    \E r, q \in Requests :
        /\ r # q
        /\ Returned(r) /\ Returned(q)
        /\ Val(contents[r]).pix # Val(contents[q]).pix
        /\ storage[Val(unique_filename[r])].pix = "a"
        /\ storage[Val(unique_filename[q])].pix = "b"

====
